---- MODULE Spec2Model ----
(***************************************************************************)
(* A model of the stock-portfolio-tracker backend: the JWT token service   *)
(* (app/auth.py), the authentication dependency and the auth routes        *)
(* (app/routes/auth.py) and the portfolio routes (app/routes/portfolio.py) *)
(* over the two MongoDB collections users and portfolio.                   *)
(*                                                                         *)
(* Time is counted in ticks, TicksPerSecond of them to a second: datetime  *)
(* values keep sub-second precision while the "exp" claim of a token is a  *)
(* whole number of seconds.                                                *)
(*                                                                         *)
(* Python's None and Optional values are sequences: <<>> is None and <<x>> *)
(* is the value x.  A dict is a function whose domain is its key set.      *)
(*                                                                         *)
(* Eight specifications share the state: Spec is the API at one instant,   *)
(* with any credentials; SessionSpec is the API as the clock advances and  *)
(* a client keeps the token it was sent; TokenSpec is the token service    *)
(* called directly as the clock advances; AccountSpec is registration      *)
(* request by request, interleaved at its store calls; PriceSpec is the    *)
(* portfolio of one client as the hours pass; HoldingSpec is the portfolio *)
(* of one client with request bodies that pass and that fail validation;   *)
(* SimSpec is the price simulator and the metrics called directly;         *)
(* StoreSpec is the connection to the store (app/database.py) from the     *)
(* import of the module.                                                   *)
(***************************************************************************)
EXTENDS Integers, Sequences, FiniteSets, TLC

VARIABLES
    now,        \* the wall clock, in ticks since the epoch
    users,      \* db.users: the identity documents, in insertion order
    portfolio,  \* db.portfolio: the holding documents, in insertion order
    nextOid,    \* how many ObjectIds the store has generated
    req,        \* the requests in flight that are between two store calls
    last,       \* the step taken last and the response it sent, if any
    held,       \* a token a client keeps from a register or login response
    call,       \* the last direct call of a function and what it returned
    vres,       \* what verify_token answered when it was last called directly
    clients,    \* the AsyncIOMotorClient objects created: whether each is closed
    client,     \* database.py's global client: None or one of the clients
    database    \* database.py's global database: None or the handle of a client

\* The state of app/database.py
store == <<clients, client, database>>

vars == <<now, users, portfolio, nextOid, req, last, held, call, vres, store>>

(***************************************************************************)
(* Bounds of the model.                                                    *)
(***************************************************************************)
TicksPerSecond == 2
MaxSkew == 2
MaxHoldings == 2
SessionHoldings == 1
\* Prices below a cent and quantities below a share are counted in
\* 1/Resolution of a cent and of a share
Resolution == 10

(***************************************************************************)
(* Python values.                                                          *)
(***************************************************************************)
None == <<>>
Some(x) == <<x>>

\* Python truthiness of an Optional[timedelta]: None and timedelta(0) are falsy.
Truthy(opt) == opt # None /\ opt[1] # 0

\* dict.update({k: v}) on a copy
DictUpdate(d, k, v) == [x \in DOMAIN d \cup {k} |-> IF x = k THEN v ELSE d[x]]

\* dict.get(k)
DictGet(d, k) == IF k \in DOMAIN d THEN Some(d[k]) ELSE None

(***************************************************************************)
(* app/auth.py: the token service.                                         *)
(***************************************************************************)
SECRET_KEY == "your-secret-key-change-this-in-production"
ALGORITHM == "HS256"
ACCESS_TOKEN_EXPIRE_MINUTES == 30 * 24 * 60
SecondsPerMinute == 60

\* timedelta(minutes=m), in ticks
timedelta_minutes(m) == m * SecondsPerMinute * TicksPerSecond

\* datetime.utcnow()
utcnow == now

\* The NumericDate of a datetime (calendar.timegm of its utctimetuple): whole
\* seconds, the sub-second part dropped.
timegm(dt) == dt \div TicksPerSecond

\* jwt.encode: a datetime claim "exp" is turned into its NumericDate; the
\* signature binds header and payload to the key.
jwt_encode(claims, key, algorithm) ==
    [wellformed |-> TRUE,
     alg        |-> algorithm,
     payload    |-> IF "exp" \in DOMAIN claims
                    THEN DictUpdate(claims, "exp", timegm(claims["exp"]))
                    ELSE claims,
     key        |-> key]

\* jwt.decode: the decoded payload, or None where the library raises JWTError
\* (not three segments, algorithm not allowed, signature mismatch, expired).
\* An "exp" is expired when exp < now, both in whole seconds.
jwt_decode(token, key, algorithms) ==
    IF ~token.wellformed THEN None
    ELSE IF token.alg \notin algorithms THEN None
    ELSE IF token.key # key THEN None
    ELSE IF "exp" \in DOMAIN token.payload /\ token.payload["exp"] < timegm(utcnow)
         THEN None
    ELSE Some(token.payload)

\* create_access_token forgetting data.copy(): the caller's dict gets "exp".
create_access_token_nocopy(data, expires_delta) ==
    LET expire == IF Truthy(expires_delta)
                  THEN utcnow + expires_delta[1]
                  ELSE utcnow + timedelta_minutes(ACCESS_TOKEN_EXPIRE_MINUTES)
        to_encode == DictUpdate(data, "exp", expire)
    IN  [encoded_jwt |-> jwt_encode(to_encode, SECRET_KEY, ALGORITHM),
         data        |-> to_encode,
         expire      |-> expire]

\* create_access_token(data, expires_delta): the token, the caller's dict as
\* the call leaves it, and the expiry instant it computed.
create_access_token(data, expires_delta) ==
    LET expire == IF Truthy(expires_delta)
                  THEN utcnow + expires_delta[1]
                  ELSE utcnow + timedelta_minutes(ACCESS_TOKEN_EXPIRE_MINUTES)
        to_encode == DictUpdate(data, "exp", expire)
    IN  [encoded_jwt |-> jwt_encode(to_encode, SECRET_KEY, ALGORITHM),
         data        |-> data,
         expire      |-> expire]

\* verify_token consulting the store: a token is void once its subject owns
\* a holding
verify_token_with_store(token) ==
    IF \E i \in 1..Len(portfolio) :
          "sub" \in DOMAIN token.payload /\ portfolio[i].user_id = token.payload["sub"]
    THEN None
    ELSE jwt_decode(token, SECRET_KEY, {ALGORITHM})

\* verify_token(token): the payload, or None
verify_token(token) == jwt_decode(token, SECRET_KEY, {ALGORITHM})


(***************************************************************************)
(* bson.ObjectId.  An ObjectId is a record holding its 24-digit hex form;  *)
(* str() unwraps it and ObjectId() wraps a string that is_valid accepts.   *)
(* The store generates the ids of a collection in the order of its hex     *)
(* table; UnusedOidHex is a well-formed id the store never generates.      *)
(***************************************************************************)
UserOidHex == <<"65f0000000000000000000a1", "65f0000000000000000000a2",
                "65f0000000000000000000a3", "65f0000000000000000000a4">>
StockOidHex == <<"65f0000000000000000000b1", "65f0000000000000000000b2",
                 "65f0000000000000000000b3", "65f0000000000000000000b4",
                 "65f0000000000000000000b5">>
UnusedOidHex == "65f0000000000000000000ff"
MalformedId == "not-an-objectid"

OidStrings == {UserOidHex[i] : i \in 1..Len(UserOidHex)}
              \cup {StockOidHex[i] : i \in 1..Len(StockOidHex)}
              \cup {UnusedOidHex}

ObjectId_is_valid(s) == s \in OidStrings
ObjectId(s) == [oid |-> s]
str(o) == o.oid

(***************************************************************************)
(* The store: a collection is the sequence of its documents.               *)
(***************************************************************************)
MinOf(S) == CHOOSE x \in S : \A y \in S : x <= y

\* A document matches a filter {field: value, ...}
Matches(doc, filter) ==
    \A k \in DOMAIN filter : k \in DOMAIN doc /\ doc[k] = filter[k]

Matching(coll, filter) == {i \in 1..Len(coll) : Matches(coll[i], filter)}

\* collection.find_one(filter): the first matching document, or None
find_one(coll, filter) ==
    IF Matching(coll, filter) = {} THEN None
    ELSE Some(coll[MinOf(Matching(coll, filter))])

\* collection.find(filter).to_list(length)
find_to_list(coll, filter, length) ==
    LET Found(doc) == Matches(doc, filter)
        found == SelectSeq(coll, Found)
    IN  IF Len(found) <= length THEN found ELSE SubSeq(found, 1, length)

\* collection.insert_one(doc)
insert_one(coll, doc) == Append(coll, doc)

\* collection.delete_one(filter): the collection left and deleted_count
delete_one(coll, filter) ==
    IF Matching(coll, filter) = {} THEN [coll |-> coll, deleted_count |-> 0]
    ELSE LET k == MinOf(Matching(coll, filter))
         IN  [coll |-> SubSeq(coll, 1, k - 1) \o SubSeq(coll, k + 1, Len(coll)),
              deleted_count |-> 1]

\* collection.update_one(filter, {"$set": update_data}, upsert=True)
update_one_upsert(coll, filter, update_data) ==
    IF Matching(coll, filter) = {}
    THEN Append(coll, [f \in DOMAIN filter \cup DOMAIN update_data |->
                          IF f \in DOMAIN update_data THEN update_data[f]
                          ELSE filter[f]])
    ELSE LET k == MinOf(Matching(coll, filter))
         IN  [coll EXCEPT ![k] =
                 [f \in DOMAIN coll[k] \cup DOMAIN update_data |->
                     IF f \in DOMAIN update_data THEN update_data[f] ELSE coll[k][f]]]

\* collection.update_one(filter, {"$set": update_data})
update_one(coll, filter, update_data) ==
    IF Matching(coll, filter) = {} THEN coll
    ELSE LET k == MinOf(Matching(coll, filter))
         IN  [coll EXCEPT ![k] =
                 [f \in DOMAIN coll[k] \cup DOMAIN update_data |->
                     IF f \in DOMAIN update_data THEN update_data[f] ELSE coll[k][f]]]

(***************************************************************************)
(* bcrypt.  A hash carries its salt; the digest of an ideal hash is the    *)
(* pair it was computed from.                                              *)
(***************************************************************************)
Salts == {"salt1", "salt2"}

bcrypt_hashpw(password, salt) == [salt |-> salt, digest |-> <<salt, password>>]
bcrypt_checkpw(password, hashed) == bcrypt_hashpw(password, hashed.salt) = hashed

\* verify_password(plain_password, hashed_password)
verify_password(plain_password, hashed_password) ==
    bcrypt_checkpw(plain_password, hashed_password)

\* get_password_hash(password), with the salt bcrypt.gensalt() drew
get_password_hash(password, salt) == bcrypt_hashpw(password, salt)


(***************************************************************************)
(* app/utils/price_simulator.py.  Money is counted in cents, so that       *)
(* round(x, 2) is the rounding of a fraction of cents to a whole number.   *)
(***************************************************************************)
\* round(): n/d (d > 0) to the nearest integer, ties to the even one
RoundHalfEven(n, d) ==
    LET q == n \div d
        r == n % d
    IN  IF 2 * r < d THEN q
        ELSE IF 2 * r > d THEN q + 1
        ELSE IF q % 2 = 0 THEN q ELSE q + 1

\* hashlib.md5(seed).hexdigest()[:8] as its two 16-bit halves, for the seeds
\* "{stock_name}_{current_hour}" the model meets
md5_head(stock_name, current_hour) ==
    CASE stock_name = "AAPL" /\ current_hour = 0   -> <<34326, 20649>>  \* 861650a9
      [] stock_name = "AAPL" /\ current_hour = 1   -> <<40665, 28872>>  \* 9ed970c8
      [] stock_name = "AAPL" /\ current_hour = 360 -> <<5243, 52167>>   \* 147bcbc7
      [] stock_name = "AAPL" /\ current_hour = 720 -> <<17711, 53389>>  \* 452fd08d
      [] stock_name = "AAPL" /\ current_hour = 721 -> <<56251, 10475>>  \* dbbb28eb
      [] stock_name = "GOOG" /\ current_hour = 0   -> <<40237, 51675>>  \* 9d2dc9db
      [] stock_name = "GOOG" /\ current_hour = 1   -> <<22016, 35580>>  \* 56008afc
      [] stock_name = "GOOG" /\ current_hour = 360 -> <<57745, 15705>>  \* e1913d59
      [] stock_name = "GOOG" /\ current_hour = 720 -> <<60103, 39583>>  \* eac79a9f
      [] stock_name = "GOOG" /\ current_hour = 721 -> <<46726, 10913>>  \* b6862aa1

\* int(hash_hex[:8], 16) % 10000, computed without leaving 32 bits
hash_mod(stock_name, current_hour) ==
    LET h == md5_head(stock_name, current_hour)
    IN  ((h[1] % 10000) * (65536 % 10000) + h[2]) % 10000

\* current_hour = int(time.time() // 3600), with the hour as the bucket
SecondsPerHour == 3600
current_hour == timegm(now) \div SecondsPerHour

\* simulate_stock_price with a variation of 10% either way
simulated_price_wide(unit, buy_price, m) ==
    IF buy_price <= 0 THEN buy_price
    ELSE unit * RoundHalfEven(buy_price * (90000 + 2 * m), 100000 * unit)

\* simulate_stock_price with neither check on the sign
simulated_price_unchecked(unit, buy_price, m) ==
    unit * RoundHalfEven(buy_price * (95000 + m), 100000 * unit)

\* simulate_stock_price from the hash on, for a buy_price counted in 1/unit
\* of a cent (the result is counted the same way) and m = hash_int % 10000:
\* buy_price * (1 + (m / 10000 - 0.5) * 0.10), rounded to whole cents
simulated_price(unit, buy_price, m) ==
    IF buy_price <= 0 THEN buy_price
    ELSE LET scaled == buy_price * (95000 + m)     \* simulated_price * 100000
         IN  IF scaled <= 0
             THEN unit * RoundHalfEven(buy_price, unit)
             ELSE unit * RoundHalfEven(scaled, 100000 * unit)

\* simulate_stock_price with the second of the clock as the bucket
simulate_stock_price_by_second(stock_name, buy_price) ==
    simulated_price(1, buy_price, hash_mod(stock_name, timegm(now) % 2))

\* simulate_stock_price(stock_name, buy_price), in cents
simulate_stock_price(stock_name, buy_price) ==
    simulated_price(1, buy_price, hash_mod(stock_name, current_hour))

(***************************************************************************)
(* app/routes/portfolio.py: calculate_stock_metrics.  Amounts in cents,    *)
(* the percentage in hundredths of a percent.                              *)
(***************************************************************************)
\* calculate_stock_metrics with the profit/loss rounded to whole units of
\* currency
stock_metrics_whole(unit, quantity, buy_price, current_price) ==
    LET total_invested == quantity * buy_price
        current_value == quantity * current_price
        profit_loss == current_value - total_invested
    IN  [total_invested |-> RoundHalfEven(total_invested, unit),
         current_value  |-> RoundHalfEven(current_value, unit),
         profit_loss    |-> 100 * RoundHalfEven(profit_loss, 100 * unit),
         profit_loss_percentage |->
             IF total_invested > 0
             THEN RoundHalfEven(profit_loss * 10000, total_invested)
             ELSE 0]

\* calculate_stock_metrics for a quantity counted in 1/unit of a share: the
\* products are in 1/unit of a cent and round(x, 2) makes them whole cents
stock_metrics(unit, quantity, buy_price, current_price) ==
    LET total_invested == quantity * buy_price
        current_value == quantity * current_price
        profit_loss == current_value - total_invested
    IN  [total_invested |-> RoundHalfEven(total_invested, unit),
         current_value  |-> RoundHalfEven(current_value, unit),
         profit_loss    |-> RoundHalfEven(profit_loss, unit),
         profit_loss_percentage |->
             IF total_invested > 0
             THEN RoundHalfEven(profit_loss * 10000, total_invested)
             ELSE 0]

\* calculate_stock_metrics(quantity, buy_price, current_price), whole shares
calculate_stock_metrics(quantity, buy_price, current_price) ==
    stock_metrics(1, quantity, buy_price, current_price)

\* The floats round(x, 2) returns: the double nearest to c cents is
\* c / 100 + FloatError[c + 1] * 10^-21, for c = 0..15 (the error to the
\* nearest 10^-21), and the double nearest to -c cents is its negation
FloatError ==
    <<0, 208, 416, -1110, 833, 2776, -2220, 6661, 1665, -3331, 5551, 555,
      -4441, 4441, 13323, -5551>>

\* float(c / 100) as the cents it stands for and its distance from them
float(c) ==
    [cents |-> c,
     err |-> IF c >= 0 THEN FloatError[c + 1] ELSE -FloatError[-c + 1]]

\* x - y, abs(x) and x <= y for such numbers, computed exactly (the errors
\* are far below a cent)
float_sub(x, y) == [cents |-> x.cents - y.cents, err |-> x.err - y.err]
float_abs(x) ==
    IF x.cents < 0 \/ (x.cents = 0 /\ x.err < 0)
    THEN [cents |-> -x.cents, err |-> -x.err]
    ELSE x
float_le(x, y) == x.cents < y.cents \/ (x.cents = y.cents /\ x.err <= y.err)

\* StockResponse(id=str(stock["_id"]), ..., current_price=current_price, **metrics)
StockResponse(stock, current_price) ==
    LET metrics == calculate_stock_metrics(stock.quantity, stock.buy_price, current_price)
    IN  [id            |-> str(stock._id),
         user_id       |-> stock.user_id,
         stock_name    |-> stock.stock_name,
         quantity      |-> stock.quantity,
         buy_price     |-> stock.buy_price,
         current_price |-> current_price,
         total_invested |-> metrics.total_invested,
         current_value  |-> metrics.current_value,
         profit_loss    |-> metrics.profit_loss,
         profit_loss_percentage |-> metrics.profit_loss_percentage]

(***************************************************************************)
(* Responses.  An HTTPException(status, detail) is a response with no      *)
(* body; an exception no handler catches is the 500 of the server.         *)
(***************************************************************************)
HTTPException(status_code, detail) ==
    [status |-> status_code, detail |-> detail, body |-> None]
Ok(status_code, body) ==
    [status |-> status_code, detail |-> "", body |-> Some(body)]
Unhandled == HTTPException(500, "Internal Server Error")

(***************************************************************************)
(* app/database.py: the connection to the store.  An AsyncIOMotorClient is *)
(* the place it has in clients; client[DATABASE_NAME] is the handle of a   *)
(* client.                                                                 *)
(***************************************************************************)
DATABASE_NAME == "stock_portfolio_db"

Database(c) == [client |-> c, name |-> DATABASE_NAME]

\* A function called directly returned x, or raised an error that is not
\* an HTTPException
Return(x) == Ok(200, x)
Raise(error) == [status |-> -1, detail |-> error, body |-> None]

ServiceUnavailable ==
    HTTPException(503, "Database not connected. Make sure MongoDB connection is established.")

\* The outcomes of connect_to_mongo: the client was created and answered
\* the ping; the client was created and the ping raised; creating the
\* client raised
ConnectOutcomes == {"connected", "ping_failed", "client_failed"}

\* connect_to_mongo(): the globals after the call and what the call did
connect_to_mongo(outcome) ==
    LET new == Len(clients) + 1
    IN  IF outcome = "client_failed"
        THEN [clients |-> clients, client |-> client, database |-> database,
              result |-> Raise("Exception")]
        ELSE IF outcome = "ping_failed"
        THEN [clients |-> Append(clients, [closed |-> FALSE]),
              client |-> Some(new), database |-> database,
              result |-> Raise("ServerSelectionTimeoutError")]
        ELSE [clients |-> Append(clients, [closed |-> FALSE]),
              client |-> Some(new), database |-> Some(Database(new)),
              result |-> Return(Database(new))]

\* close_mongo_connection(): the clients after the call; the globals client
\* and database are not assigned
close_mongo_connection ==
    IF client # None
    THEN [clients EXCEPT ![client[1]].closed = TRUE]
    ELSE clients

\* get_database()
get_database ==
    IF database = None THEN ServiceUnavailable ELSE Return(database[1])

(***************************************************************************)
(* app/models.py: the validation of a request body, which FastAPI runs     *)
(* after the dependencies of the route and before its handler; a body      *)
(* that fails gets the 422 response.                                        *)
(***************************************************************************)
RequestValidationError == HTTPException(422, "Unprocessable Entity")

\* Field(..., min_length=1, max_length=100) and Field(..., gt=0)
MinNameLength == 1
MaxNameLength == 100
stock_name_valid(stock_name) ==
    Len(stock_name) >= MinNameLength /\ Len(stock_name) <= MaxNameLength
gt0(x) == x > 0

\* StockCreate
StockCreate_valid(stock_data) ==
    /\ stock_name_valid(stock_data.stock_name)
    /\ gt0(stock_data.quantity)
    /\ gt0(stock_data.buy_price)

\* StockUpdate with no constraint on its fields
StockUpdate_unconstrained(stock_data) == TRUE

\* StockUpdate: every field is Optional, and validated when provided
StockUpdate_valid(stock_data) ==
    /\ stock_data.stock_name # None => stock_name_valid(stock_data.stock_name[1])
    /\ stock_data.quantity # None => gt0(stock_data.quantity[1])
    /\ stock_data.buy_price # None => gt0(stock_data.buy_price[1])

(***************************************************************************)
(* app/routes/auth.py: get_current_user.                                   *)
(***************************************************************************)
\* HTTPBearer() answering a request with no credential by 403
HTTPBearer_403(credentials) ==
    IF credentials = None THEN HTTPException(403, "Not authenticated")
    ELSE Ok(200, credentials[1])

\* HTTPBearer(): a request with no bearer credential is answered before the
\* dependency runs
HTTPBearer(credentials) ==
    IF credentials = None THEN HTTPException(401, "Not authenticated")
    ELSE Ok(200, credentials[1])

\* get_current_user looking up any identity, whatever the subject
get_current_user_any(credentials) ==
    IF HTTPBearer(credentials).status # 200
    THEN [user |-> None, resp |-> HTTPBearer(credentials)]
    ELSE LET payload == verify_token(credentials[1])
             user == find_one(users, <<>>)
         IN  IF payload = None
             THEN [user |-> None,
                   resp |-> HTTPException(401, "Invalid or expired token")]
             ELSE IF user = None
             THEN [user |-> None, resp |-> HTTPException(401, "User not found")]
             ELSE [user |-> user, resp |-> Ok(200, user[1])]

\* get_current_user(credentials): user is the document found, or None with
\* the response the request ends in
get_current_user(credentials) ==
    IF HTTPBearer(credentials).status # 200
    THEN [user |-> None, resp |-> HTTPBearer(credentials)]
    ELSE LET token == credentials[1]
             payload == verify_token(token)
         IN  IF payload = None
             THEN [user |-> None,
                   resp |-> HTTPException(401, "Invalid or expired token")]
             ELSE LET user_id == DictGet(payload[1], "sub")
                  IN  IF user_id = None
                      THEN [user |-> None,
                            resp |-> HTTPException(401, "Invalid token payload")]
                      ELSE IF ~ObjectId_is_valid(user_id[1])
                      THEN [user |-> None, resp |-> Unhandled]  \* bson InvalidId
                      ELSE LET user == find_one(users, [_id |-> ObjectId(user_id[1])])
                           IN  IF user = None
                               THEN [user |-> None,
                                     resp |-> HTTPException(401, "User not found")]
                               ELSE [user |-> user, resp |-> Ok(200, user[1])]


(***************************************************************************)
(* app/routes/auth.py: register, login, /me.  Each operator gives the      *)
(* response and the collection as the handler leaves it.                   *)
(***************************************************************************)
UserResponse(user) ==
    [id |-> str(user._id), username |-> user.username, email |-> user.email]

TokenResponse(access_token, user) ==
    [access_token |-> access_token, token_type |-> "bearer", user |-> user]

\* register: the check on the username, the error response or None
register_check_username(user_data) ==
    IF find_one(users, [username |-> user_data.username]) # None
    THEN Some(HTTPException(400, "Username already registered"))
    ELSE None

\* register with no check on the email
register_check_email_skipped(user_data) == None

\* register: the check on the email, the error response or None
register_check_email(user_data) ==
    IF find_one(users, [email |-> user_data.email]) # None
    THEN Some(HTTPException(400, "Email already registered"))
    ELSE None

\* register from the hashing of the password on: the document inserted,
\* the token and the response
register_insert(user_data, salt) ==
    LET inserted_id == ObjectId(UserOidHex[Len(users) + 1])
        user_doc == [_id |-> inserted_id,
                     username |-> user_data.username,
                     email |-> user_data.email,
                     hashed_password |->
                         get_password_hash(user_data.password, salt),
                     created_at |-> utcnow]
        token_data == [sub |-> str(inserted_id),
                       username |-> user_data.username]
        created == create_access_token(token_data, None)
    IN  [resp |-> Ok(201, TokenResponse(created.encoded_jwt,
                                        UserResponse(user_doc))),
         users |-> insert_one(users, user_doc),
         expire |-> Some(created.expire)]

\* register(user_data), with the salt bcrypt.gensalt() draws
register(user_data, salt) ==
    IF register_check_username(user_data) # None
    THEN [resp |-> register_check_username(user_data)[1],
          users |-> users, expire |-> None]
    ELSE IF register_check_email(user_data) # None
    THEN [resp |-> register_check_email(user_data)[1],
          users |-> users, expire |-> None]
    ELSE register_insert(user_data, salt)

\* login telling an unknown username from a wrong password
login_telling(user_data) ==
    LET user == find_one(users, [username |-> user_data.username])
    IN  IF user = None
        THEN [resp |-> HTTPException(404, "User not found"), expire |-> None]
        ELSE IF ~verify_password(user_data.password, user[1].hashed_password)
        THEN [resp |-> HTTPException(401, "Incorrect username or password"),
              expire |-> None]
        ELSE LET token_data == [sub |-> str(user[1]._id),
                                username |-> user[1].username]
                 created == create_access_token(token_data, None)
             IN  [resp |-> Ok(200, TokenResponse(created.encoded_jwt,
                                                 UserResponse(user[1]))),
                  expire |-> Some(created.expire)]

\* login(user_data)
login(user_data) ==
    LET user == find_one(users, [username |-> user_data.username])
    IN  IF user = None
        THEN [resp |-> HTTPException(401, "Incorrect username or password"),
              expire |-> None]
        ELSE IF ~verify_password(user_data.password, user[1].hashed_password)
        THEN [resp |-> HTTPException(401, "Incorrect username or password"),
              expire |-> None]
        ELSE LET token_data == [sub |-> str(user[1]._id),
                                username |-> user[1].username]
                 created == create_access_token(token_data, None)
             IN  [resp |-> Ok(200, TokenResponse(created.encoded_jwt,
                                                 UserResponse(user[1]))),
                  expire |-> Some(created.expire)]

\* get_current_user_info(current_user)
get_current_user_info(current_user) == Ok(200, UserResponse(current_user))

(***************************************************************************)
(* app/routes/portfolio.py: the handlers, given the document current_user  *)
(* that get_current_user resolved.                                         *)
(***************************************************************************)
ToListLength == 1000

\* add_stock with the first identity of the store as the owner
add_stock_first_user(stock_data, current_user) ==
    LET user_id == str(users[1]._id)
        current_price == stock_data.buy_price
        stock_doc == [_id |-> ObjectId(StockOidHex[nextOid + 1]),
                      user_id |-> user_id,
                      stock_name |-> stock_data.stock_name,
                      quantity |-> stock_data.quantity,
                      buy_price |-> stock_data.buy_price,
                      current_price |-> current_price,
                      created_at |-> utcnow,
                      updated_at |-> utcnow]
    IN  [resp |-> Ok(201, StockResponse(stock_doc, current_price)),
         portfolio |-> insert_one(portfolio, stock_doc)]

\* add_stock with the simulated price as the current price
add_stock_simulated(stock_data, current_user) ==
    LET user_id == str(current_user._id)
        current_price == simulate_stock_price(stock_data.stock_name,
                                              stock_data.buy_price)
        stock_doc == [_id |-> ObjectId(StockOidHex[nextOid + 1]),
                      user_id |-> user_id,
                      stock_name |-> stock_data.stock_name,
                      quantity |-> stock_data.quantity,
                      buy_price |-> stock_data.buy_price,
                      current_price |-> current_price,
                      created_at |-> utcnow,
                      updated_at |-> utcnow]
    IN  [resp |-> Ok(201, StockResponse(stock_doc, current_price)),
         portfolio |-> insert_one(portfolio, stock_doc)]

\* add_stock(stock_data, current_user)
add_stock(stock_data, current_user) ==
    LET user_id == str(current_user._id)
        current_price == stock_data.buy_price
        stock_doc == [_id |-> ObjectId(StockOidHex[nextOid + 1]),
                      user_id |-> user_id,
                      stock_name |-> stock_data.stock_name,
                      quantity |-> stock_data.quantity,
                      buy_price |-> stock_data.buy_price,
                      current_price |-> current_price,
                      created_at |-> utcnow,
                      updated_at |-> utcnow]
    IN  [resp |-> Ok(201, StockResponse(stock_doc, current_price)),
         portfolio |-> insert_one(portfolio, stock_doc)]

\* The StockResponse list both list handlers build from the documents found
StockList(stocks) ==
    [i \in 1..Len(stocks) |->
        StockResponse(stocks[i],
                      simulate_stock_price(stocks[i].stock_name, stocks[i].buy_price))]

\* get_all_stocks with no filter on user_id
get_all_stocks_everyone(current_user) ==
    LET stocks == find_to_list(portfolio, <<>>, ToListLength)
    IN  Ok(200, StockList(stocks))

\* get_all_stocks(current_user)
get_all_stocks(current_user) ==
    LET user_id == str(current_user._id)
        stocks == find_to_list(portfolio, [user_id |-> user_id], ToListLength)
    IN  Ok(200, StockList(stocks))

\* get_stock(stock_id, current_user)
get_stock(stock_id, current_user) ==
    LET user_id == str(current_user._id)
        stock == find_one(portfolio, [_id |-> ObjectId(stock_id),
                                      user_id |-> user_id])
    IN  IF ~ObjectId_is_valid(stock_id)
        THEN HTTPException(400, "Invalid stock ID format")
        ELSE IF stock = None
        THEN HTTPException(404, "Stock not found")
        ELSE Ok(200, StockResponse(stock[1],
                 simulate_stock_price(stock[1].stock_name, stock[1].buy_price)))

\* update_stock up to its ownership check: the error response, or None when
\* the handler goes on
update_stock_check(stock_id, current_user) ==
    LET user_id == str(current_user._id)
        stock == find_one(portfolio, [_id |-> ObjectId(stock_id),
                                      user_id |-> user_id])
    IN  IF ~ObjectId_is_valid(stock_id)
        THEN Some(HTTPException(400, "Invalid stock ID format"))
        ELSE IF stock = None
        THEN Some(HTTPException(404, "Stock not found"))
        ELSE None

\* update_stock: the update document, updated_at and the fields provided
update_data(stock_data) ==
    LET d0 == [k \in {"updated_at"} |-> utcnow]
        d1 == IF stock_data.stock_name # None
              THEN DictUpdate(d0, "stock_name", stock_data.stock_name[1]) ELSE d0
        d2 == IF stock_data.quantity # None
              THEN DictUpdate(d1, "quantity", stock_data.quantity[1]) ELSE d1
        d3 == IF stock_data.buy_price # None
              THEN DictUpdate(DictUpdate(d2, "buy_price", stock_data.buy_price[1]),
                              "current_price", stock_data.buy_price[1])
              ELSE d2
    IN  d3

\* update_stock: db.portfolio.update_one({"_id": ObjectId(stock_id)}, {"$set": ...})
update_stock_set(stock_id, data) ==
    update_one(portfolio, [_id |-> ObjectId(stock_id)], data)

\* update_stock from its second find_one on: subscripting the None of a
\* document that is gone raises TypeError
update_stock_fetch(stock_id) ==
    LET updated_stock == find_one(portfolio, [_id |-> ObjectId(stock_id)])
    IN  IF updated_stock = None THEN Unhandled
        ELSE Ok(200, StockResponse(updated_stock[1],
                 simulate_stock_price(updated_stock[1].stock_name,
                                      updated_stock[1].buy_price)))

\* delete_stock with the filter on _id alone
delete_stock_unscoped(stock_id, current_user) ==
    LET result == delete_one(portfolio, [_id |-> ObjectId(stock_id)])
    IN  IF ~ObjectId_is_valid(stock_id)
        THEN [resp |-> HTTPException(400, "Invalid stock ID format"),
              portfolio |-> portfolio]
        ELSE IF result.deleted_count = 0
        THEN [resp |-> HTTPException(404, "Stock not found"),
              portfolio |-> result.coll]
        ELSE [resp |-> Ok(200, [message |-> "Stock deleted successfully"]),
              portfolio |-> result.coll]

\* delete_stock(stock_id, current_user)
delete_stock(stock_id, current_user) ==
    LET user_id == str(current_user._id)
        result == delete_one(portfolio, [_id |-> ObjectId(stock_id),
                                         user_id |-> user_id])
    IN  IF ~ObjectId_is_valid(stock_id)
        THEN [resp |-> HTTPException(400, "Invalid stock ID format"),
              portfolio |-> portfolio]
        ELSE IF result.deleted_count = 0
        THEN [resp |-> HTTPException(404, "Stock not found"),
              portfolio |-> result.coll]
        ELSE [resp |-> Ok(200, [message |-> "Stock deleted successfully"]),
              portfolio |-> result.coll]

RECURSIVE SumField(_, _)
SumField(list, field) ==
    IF Len(list) = 0 THEN 0
    ELSE list[1][field] + SumField(Tail(list), field)

\* get_portfolio_summary with the totals made from the stored current_price
get_portfolio_summary_stored(current_user) ==
    LET user_id == str(current_user._id)
        stocks == find_to_list(portfolio, [user_id |-> user_id], ToListLength)
        stock_list == StockList(stocks)
        stored_list == [i \in 1..Len(stocks) |->
                           StockResponse(stocks[i], stocks[i].current_price)]
        total_invested == SumField(stored_list, "total_invested")
        total_current_value == SumField(stored_list, "current_value")
        total_profit_loss == total_current_value - total_invested
    IN  Ok(200, [total_stocks |-> Len(stock_list),
                 total_invested |-> total_invested,
                 total_current_value |-> total_current_value,
                 total_profit_loss |-> total_profit_loss,
                 total_profit_loss_percentage |->
                     IF total_invested > 0
                     THEN RoundHalfEven(total_profit_loss * 10000, total_invested)
                     ELSE 0,
                 stocks |-> stock_list])

\* get_portfolio_summary(current_user)
get_portfolio_summary(current_user) ==
    LET user_id == str(current_user._id)
        stocks == find_to_list(portfolio, [user_id |-> user_id], ToListLength)
        stock_list == StockList(stocks)
        total_invested == SumField(stock_list, "total_invested")
        total_current_value == SumField(stock_list, "current_value")
        total_profit_loss == total_current_value - total_invested
    IN  Ok(200, [total_stocks |-> Len(stock_list),
                 total_invested |-> total_invested,
                 total_current_value |-> total_current_value,
                 total_profit_loss |-> total_profit_loss,
                 total_profit_loss_percentage |->
                     IF total_invested > 0
                     THEN RoundHalfEven(total_profit_loss * 10000, total_invested)
                     ELSE 0,
                 stocks |-> stock_list])


(***************************************************************************)
(* What clients send.                                                      *)
(***************************************************************************)
Procs == {"p1"}

SessionRegisterInputs ==
    {[username |-> "alice", email |-> "alice@x.com", password |-> "secret1"],
     [username |-> "bob",   email |-> "bob@x.com",   password |-> "secret2"]}

RegisterInputs ==
    SessionRegisterInputs
    \cup {[username |-> "bob", email |-> "alice@x.com", password |-> "secret1"]}

LoginInputs ==
    [username : {"alice", "bob"}, password : {"secret1", "secret2"}]

StockInputs == {[stock_name |-> "AAPL", quantity |-> 10, buy_price |-> 15000]}

NoUpdate == [stock_name |-> None, quantity |-> None, buy_price |-> None]

UpdateInputs ==
    {NoUpdate,
     [stock_name |-> Some("GOOG"), quantity |-> None, buy_price |-> Some(20000)]}

StockIdInputs ==
    {StockOidHex[i] : i \in 1..MaxHoldings} \cup {UnusedOidHex, MalformedId}

\* The default lifetime of a token, in ticks and in seconds
DefaultTTL == timedelta_minutes(ACCESS_TOKEN_EXPIRE_MINUTES)
DefaultTTLSeconds == timegm(DefaultTTL)

\* The tokens a client may present besides the one it holds: tokens signed
\* with the server's key (subject a user id, an id of no user, a string that
\* is no ObjectId, or no subject at all; expired long ago, or issued at the
\* epoch or one lifetime later), a token signed with another key and a string
\* that is no JWT.
SignedPayloads ==
    {[sub |-> UserOidHex[1], username |-> "alice", exp |-> 2 * DefaultTTLSeconds],
     [sub |-> UserOidHex[2], username |-> "bob", exp |-> 2 * DefaultTTLSeconds],
     [sub |-> UserOidHex[1], username |-> "alice", exp |-> 0],
     [sub |-> UnusedOidHex, username |-> "alice", exp |-> 2 * DefaultTTLSeconds],
     [sub |-> MalformedId, username |-> "alice", exp |-> 2 * DefaultTTLSeconds],
     [username |-> "alice", exp |-> 2 * DefaultTTLSeconds]}

NotAJwt == [wellformed |-> FALSE, alg |-> "", payload |-> <<>>, key |-> ""]

TokenUniverse ==
    {[wellformed |-> TRUE, alg |-> ALGORITHM, payload |-> pl, key |-> SECRET_KEY] :
        pl \in SignedPayloads}
    \cup {[wellformed |-> TRUE, alg |-> ALGORITHM,
           payload |-> [sub |-> UserOidHex[1], username |-> "alice",
                        exp |-> 2 * DefaultTTLSeconds],
           key |-> "another-key"],
          NotAJwt}

\* The credentials of a client that holds a token, or none
HeldCredentials == {None} \cup (IF held = None THEN {} ELSE {held})

Credentials == HeldCredentials \cup {Some(t) : t \in TokenUniverse}

(***************************************************************************)
(* The state machine.                                                      *)
(***************************************************************************)
NoResponse == [status |-> 0, detail |-> "", body |-> None]
IdleReq == [pc |-> "idle", user_id |-> "", stock_id |-> "", update_data |-> <<>>]

Event(op, user, sid, resp) == [op |-> op, user |-> user, sid |-> sid, resp |-> resp]

\* The application is serving: the startup event has run connect_to_mongo and
\* it returned
Init ==
    /\ now = TicksPerSecond
    /\ users = <<>>
    /\ portfolio = <<>>
    /\ nextOid = 0
    /\ req = [p \in Procs |-> IdleReq]
    /\ last = Event("idle", "", "", NoResponse)
    /\ held = None
    /\ call = None
    /\ vres = None
    /\ clients = <<[closed |-> FALSE]>>
    /\ client = Some(1)
    /\ database = Some(Database(1))

\* The event loop takes up the next step: the step before is over and its
\* response, if it sent one, is on its way to the client
NoEvent == Event("idle", "", "", NoResponse)
Quiet == last = NoEvent

Yield ==
    /\ ~Quiet
    /\ last' = NoEvent
    /\ UNCHANGED <<now, users, portfolio, nextOid, req, held, call, vres, store>>

\* The token of a register or login response, kept by the client
Kept(r) == Some(r.resp.body[1].access_token)

\* POST /api/auth/register
Register(user_data, salt, keep) ==
    LET r == register(user_data, salt)
    IN  /\ Quiet
        /\ users' = r.users
        /\ last' = Event("register", "", "", r.resp)
        /\ held' = IF keep /\ r.expire # None THEN Kept(r) ELSE held
        /\ UNCHANGED <<now, portfolio, nextOid, req, call, vres, store>>

\* POST /api/auth/login
Login(user_data, keep) ==
    LET r == login(user_data)
    IN  /\ Quiet
        /\ last' = Event("login", "", "", r.resp)
        /\ held' = IF keep /\ r.expire # None THEN Kept(r) ELSE held
        /\ UNCHANGED <<now, users, portfolio, nextOid, req, call, vres, store>>

\* GET /api/auth/me
Me(credentials) ==
    LET auth == get_current_user(credentials)
    IN  /\ Quiet
        /\ last' = IF auth.user = None
                   THEN Event("me", "", "", auth.resp)
                   ELSE Event("me", str(auth.user[1]._id), "",
                              get_current_user_info(auth.user[1]))
        /\ UNCHANGED <<now, users, portfolio, nextOid, req, held, call, vres, store>>

\* POST /api/portfolio/stocks
AddStock(credentials, stock_data, cap) ==
    LET auth == get_current_user(credentials)
    IN  /\ Quiet
        /\ IF auth.user = None
           THEN /\ last' = Event("add_stock", "", "", auth.resp)
                /\ UNCHANGED <<portfolio, nextOid>>
           ELSE IF ~StockCreate_valid(stock_data)
           THEN /\ last' = Event("add_stock", str(auth.user[1]._id), "",
                                 RequestValidationError)
                /\ UNCHANGED <<portfolio, nextOid>>
           ELSE LET r == add_stock(stock_data, auth.user[1])
                IN  /\ nextOid < cap
                    /\ portfolio' = r.portfolio
                    /\ nextOid' = nextOid + 1
                    /\ last' = Event("add_stock", str(auth.user[1]._id), "", r.resp)
        /\ UNCHANGED <<now, users, req, held, call, vres, store>>

\* GET /api/portfolio/stocks
GetAllStocks(credentials) ==
    LET auth == get_current_user(credentials)
    IN  /\ Quiet
        /\ last' = IF auth.user = None
                   THEN Event("get_all_stocks", "", "", auth.resp)
                   ELSE Event("get_all_stocks", str(auth.user[1]._id), "",
                              get_all_stocks(auth.user[1]))
        /\ UNCHANGED <<now, users, portfolio, nextOid, req, held, call, vres, store>>

\* GET /api/portfolio/stocks/{stock_id}
GetStock(credentials, stock_id) ==
    LET auth == get_current_user(credentials)
    IN  /\ Quiet
        /\ last' = IF auth.user = None
                   THEN Event("get_stock", "", stock_id, auth.resp)
                   ELSE Event("get_stock", str(auth.user[1]._id), stock_id,
                              get_stock(stock_id, auth.user[1]))
        /\ UNCHANGED <<now, users, portfolio, nextOid, req, held, call, vres, store>>

\* PUT /api/portfolio/stocks/{stock_id}, up to the ownership check and the
\* update document built after it
UpdateStockBegin(p, credentials, stock_id, stock_data) ==
    LET auth == get_current_user(credentials)
    IN  /\ Quiet
        /\ req[p].pc = "idle"
        /\ IF auth.user = None
           THEN /\ last' = Event("update_stock", "", stock_id, auth.resp)
                /\ UNCHANGED req
           ELSE IF ~StockUpdate_valid(stock_data)
           THEN /\ last' = Event("update_stock", str(auth.user[1]._id), stock_id,
                                 RequestValidationError)
                /\ UNCHANGED req
           ELSE LET user_id == str(auth.user[1]._id)
                    failed == update_stock_check(stock_id, auth.user[1])
                IN  IF failed # None
                    THEN /\ last' = Event("update_stock", user_id, stock_id, failed[1])
                         /\ UNCHANGED req
                    ELSE /\ last' = Event("update_stock", user_id, stock_id, NoResponse)
                         /\ req' = [req EXCEPT ![p] =
                                       [pc |-> "update_one", user_id |-> user_id,
                                        stock_id |-> stock_id,
                                        update_data |-> update_data(stock_data)]]
        /\ UNCHANGED <<now, users, portfolio, nextOid, held, call, vres, store>>

\* PUT ...: await db.portfolio.update_one(...)
UpdateStockSet(p) ==
    /\ Quiet
    /\ req[p].pc = "update_one"
    /\ portfolio' = update_stock_set(req[p].stock_id, req[p].update_data)
    /\ req' = [req EXCEPT ![p].pc = "find_updated", ![p].update_data = <<>>]
    /\ last' = Event("update_stock", req[p].user_id, req[p].stock_id, NoResponse)
    /\ UNCHANGED <<now, users, nextOid, held, call, vres, store>>

\* PUT ...: the second find_one and the response
UpdateStockEnd(p) ==
    /\ Quiet
    /\ req[p].pc = "find_updated"
    /\ last' = Event("update_stock", req[p].user_id, req[p].stock_id,
                     update_stock_fetch(req[p].stock_id))
    /\ req' = [req EXCEPT ![p] = IdleReq]
    /\ UNCHANGED <<now, users, portfolio, nextOid, held, call, vres, store>>

\* DELETE /api/portfolio/stocks/{stock_id}
DeleteStock(credentials, stock_id) ==
    LET auth == get_current_user(credentials)
    IN  /\ Quiet
        /\ IF auth.user = None
           THEN /\ last' = Event("delete_stock", "", stock_id, auth.resp)
                /\ UNCHANGED portfolio
           ELSE LET r == delete_stock(stock_id, auth.user[1])
                IN  /\ portfolio' = r.portfolio
                    /\ last' = Event("delete_stock", str(auth.user[1]._id),
                                     stock_id, r.resp)
        /\ UNCHANGED <<now, users, nextOid, req, held, call, vres, store>>

\* GET /api/portfolio/summary
GetPortfolioSummary(credentials) ==
    LET auth == get_current_user(credentials)
    IN  /\ Quiet
        /\ last' = IF auth.user = None
                   THEN Event("get_portfolio_summary", "", "", auth.resp)
                   ELSE Event("get_portfolio_summary", str(auth.user[1]._id), "",
                              get_portfolio_summary(auth.user[1]))
        /\ UNCHANGED <<now, users, portfolio, nextOid, req, held, call, vres, store>>

\* Time passes, by one tick: the model follows the clock tick by tick for
\* skew ticks after the start and after each default lifetime gone by
Tick(skew) ==
    /\ Quiet
    /\ (now + 1) % DefaultTTL <= TicksPerSecond + skew
    /\ now' = now + 1
    /\ last' = Event("clock", "", "", NoResponse)
    /\ UNCHANGED <<users, portfolio, nextOid, req, held, call, vres, store>>

\* Time passes, by d ticks, up to the instant horizon
Advance(d, horizon) ==
    /\ Quiet
    /\ now + d <= horizon
    /\ now' = now + d
    /\ last' = Event("clock", "", "", NoResponse)
    /\ UNCHANGED <<users, portfolio, nextOid, req, held, call, vres, store>>

\* The API at one instant: any requests in any order, one update_stock at a
\* time between its store calls
Next ==
    \/ \E d \in RegisterInputs : Register(d, "salt1", FALSE)
    \/ \E d \in LoginInputs : Login(d, FALSE)
    \/ \E c \in Credentials : Me(c)
    \/ \E c \in Credentials, d \in StockInputs : AddStock(c, d, MaxHoldings)
    \/ \E c \in Credentials : GetAllStocks(c)
    \/ \E c \in Credentials, i \in StockIdInputs : GetStock(c, i)
    \/ \E p \in Procs, c \in Credentials, i \in StockIdInputs, d \in UpdateInputs :
          UpdateStockBegin(p, c, i, d)
    \/ \E p \in Procs : UpdateStockSet(p)
    \/ \E p \in Procs : UpdateStockEnd(p)
    \/ \E c \in Credentials, i \in StockIdInputs : DeleteStock(c, i)
    \/ \E c \in Credentials : GetPortfolioSummary(c)
    \/ Yield

Spec == Init /\ [][Next]_vars

\* The API within the lifetime of a token: the clock advances by half the
\* default lifetime, once; a client may keep the token a response holds and
\* sends the token it keeps, or none
SessionNext ==
    \/ \E d \in SessionRegisterInputs, k \in BOOLEAN : Register(d, "salt1", k)
    \/ \E d \in LoginInputs, k \in BOOLEAN : Login(d, k)
    \/ \E c \in HeldCredentials : Me(c)
    \/ \E c \in HeldCredentials, d \in StockInputs : AddStock(c, d, SessionHoldings)
    \/ \E c \in HeldCredentials : GetAllStocks(c)
    \/ \E c \in HeldCredentials, i \in StockIdInputs : GetStock(c, i)
    \/ \E p \in Procs, c \in HeldCredentials, i \in StockIdInputs, d \in UpdateInputs :
          UpdateStockBegin(p, c, i, d)
    \/ \E p \in Procs : UpdateStockSet(p)
    \/ \E p \in Procs : UpdateStockEnd(p)
    \/ \E c \in HeldCredentials, i \in StockIdInputs : DeleteStock(c, i)
    \/ \E c \in HeldCredentials : GetPortfolioSummary(c)
    \/ Advance(DefaultTTL \div 2, DefaultTTL \div 2 + TicksPerSecond)
    \/ Yield

SessionSpec == Init /\ [][SessionNext]_vars

(***************************************************************************)
(* The token service called directly: create_access_token with any claims  *)
(* and any expires_delta, verify_token on the token created, as time       *)
(* passes.                                                                 *)
(***************************************************************************)
TokenClaims ==
    {[sub |-> UserOidHex[1], username |-> "alice"],
     [sub |-> UserOidHex[2], username |-> "bob"]}

\* expires_delta: None, or a timedelta in ticks
TokenDeltas ==
    {None} \cup {Some(d) : d \in {-TicksPerSecond, -1, 0, 1, TicksPerSecond}}

\* create_access_token(data, expires_delta), called at the instant now
CallCreate(data, expires_delta) ==
    /\ Quiet
    /\ call' = Some([data |-> data, expires_delta |-> expires_delta, at |-> now,
                     out |-> create_access_token(data, expires_delta)])
    /\ vres' = None
    /\ last' = Event("create_access_token", "", "", NoResponse)
    /\ UNCHANGED <<now, users, portfolio, nextOid, req, held, store>>

\* verify_token(token) on the token created last, called at the instant now
CallVerify ==
    /\ Quiet
    /\ call # None
    /\ vres' = Some([at |-> now, result |-> verify_token(call[1].out.encoded_jwt)])
    /\ last' = Event("verify_token", "", "", NoResponse)
    /\ UNCHANGED <<now, users, portfolio, nextOid, req, held, call, store>>

TokenNext ==
    \/ \E data \in TokenClaims, delta \in TokenDeltas : CallCreate(data, delta)
    \/ CallVerify
    \/ Tick(MaxSkew)
    \/ Advance(DefaultTTL, DefaultTTL + TicksPerSecond + MaxSkew)
    \/ Yield

TokenSpec == Init /\ [][TokenNext]_vars

(***************************************************************************)
(* The portfolio of one client as the hours pass: the clock is followed   *)
(* tick by tick for a second and advances to the next hour, once.          *)
(***************************************************************************)
PriceRegisterInputs ==
    {[username |-> "alice", email |-> "alice@x.com", password |-> "secret1"]}

OneHour == SecondsPerHour * TicksPerSecond

\* The client holds each stock of StockInputs once at most
PriceHoldings == Cardinality(StockInputs)

PriceNext ==
    \/ \E d \in PriceRegisterInputs : Register(d, "salt1", TRUE)
    \/ \E c \in HeldCredentials, d \in StockInputs : AddStock(c, d, PriceHoldings)
    \/ \E c \in HeldCredentials : GetAllStocks(c)
    \/ \E c \in HeldCredentials, i \in StockIdInputs : GetStock(c, i)
    \/ \E p \in Procs, c \in HeldCredentials, i \in StockIdInputs, d \in UpdateInputs :
          UpdateStockBegin(p, c, i, d)
    \/ \E p \in Procs : UpdateStockSet(p)
    \/ \E p \in Procs : UpdateStockEnd(p)
    \/ \E c \in HeldCredentials : GetPortfolioSummary(c)
    \/ Tick(TicksPerSecond)
    \/ Advance(OneHour, OneHour + 2 * TicksPerSecond)
    \/ Yield

PriceSpec == Init /\ [][PriceNext]_vars

(***************************************************************************)
(* The holdings of one client at one instant: requests with every subset   *)
(* of the fields of an update, and bodies the validation refuses.          *)
(***************************************************************************)
\* A name of one character more than StockCreate allows
LongName ==
    "ABCDEFGHIJABCDEFGHIJABCDEFGHIJABCDEFGHIJABCDEFGHIJABCDEFGHIJABCDEFGHIJABCDEFGHIJABCDEFGHIJABCDEFGHIJK"

ValidStockInputs ==
    {[stock_name |-> "AAPL", quantity |-> 10, buy_price |-> 15000],
     [stock_name |-> "GOOG", quantity |-> 3,  buy_price |-> 20000]}

InvalidStockInputs ==
    {[stock_name |-> "INVALID", quantity |-> -5, buy_price |-> 10000],
     [stock_name |-> "AAPL",    quantity |-> 0,  buy_price |-> 15000],
     [stock_name |-> "AAPL",    quantity |-> 10, buy_price |-> 0],
     [stock_name |-> "",        quantity |-> 10, buy_price |-> 15000],
     [stock_name |-> LongName,  quantity |-> 10, buy_price |-> 15000]}

HoldingInputs == ValidStockInputs \cup InvalidStockInputs

ValidUpdateInputs ==
    [stock_name : {None, Some("GOOG")},
     quantity   : {None, Some(25)},
     buy_price  : {None, Some(20000)}]

InvalidUpdateInputs ==
    {[stock_name |-> None,     quantity |-> Some(0), buy_price |-> None],
     [stock_name |-> None,     quantity |-> None,    buy_price |-> Some(-100)],
     [stock_name |-> Some(""), quantity |-> Some(25), buy_price |-> None]}

HoldingUpdates == ValidUpdateInputs \cup InvalidUpdateInputs

\* Each valid body is added once at most
HoldingCap == Cardinality(ValidStockInputs)

HoldingIds == {StockOidHex[i] : i \in 1..HoldingCap} \cup {UnusedOidHex}

HoldingNext ==
    \/ \E d \in PriceRegisterInputs : Register(d, "salt1", TRUE)
    \/ \E c \in HeldCredentials, d \in HoldingInputs : AddStock(c, d, HoldingCap)
    \/ \E c \in HeldCredentials : GetAllStocks(c)
    \/ \E c \in HeldCredentials, i \in HoldingIds : GetStock(c, i)
    \/ \E p \in Procs, c \in HeldCredentials, i \in HoldingIds, d \in HoldingUpdates :
          UpdateStockBegin(p, c, i, d)
    \/ \E p \in Procs : UpdateStockSet(p)
    \/ \E p \in Procs : UpdateStockEnd(p)
    \/ \E c \in HeldCredentials, i \in HoldingIds : DeleteStock(c, i)
    \/ \E c \in HeldCredentials : GetPortfolioSummary(c)
    \/ Yield

HoldingSpec == Init /\ [][HoldingNext]_vars

(***************************************************************************)
(* The price simulator and the metrics called directly, with prices below  *)
(* a cent and quantities below a share, as the hours pass.                 *)
(***************************************************************************)
SimNames == {"AAPL", "GOOG"}

\* buy_price, in 1/Resolution of a cent: -10.00, below zero by less than a
\* cent, 0, less than half a cent, half a cent, a cent, 5.00
SimPrices ==
    {-1000 * Resolution, -4, 0, 4, 5, Resolution, 500 * Resolution}

\* hash_int % 10000 at the ends and in the middle of its range
HashMods == {0, 4999, 5000, 9999}

\* quantity in 1/Resolution of a share, buy_price and current_price in cents
SimQuantities == {1, 2, 3}
SimBuyPrices == {2, 16, 18}
SimCurrentPrices == {0, 16, 32, 34}

\* simulate_stock_price(stock_name, buy_price), called at the instant now
CallSimulate(stock_name, buy_price) ==
    /\ Quiet
    /\ call' = Some([op |-> "simulate_stock_price", stock_name |-> stock_name,
                     buy_price |-> buy_price, hour |-> current_hour,
                     m |-> hash_mod(stock_name, current_hour),
                     out |-> simulated_price(Resolution, buy_price,
                                             hash_mod(stock_name, current_hour))])
    /\ last' = Event("simulate_stock_price", "", "", NoResponse)
    /\ UNCHANGED <<now, users, portfolio, nextOid, req, held, vres, store>>

\* simulate_stock_price from the hash on, for a hash of remainder m
CallVariation(buy_price, m) ==
    /\ Quiet
    /\ call' = Some([op |-> "simulate_stock_price", stock_name |-> "",
                     buy_price |-> buy_price, hour |-> current_hour, m |-> m,
                     out |-> simulated_price(Resolution, buy_price, m)])
    /\ last' = Event("simulate_stock_price", "", "", NoResponse)
    /\ UNCHANGED <<now, users, portfolio, nextOid, req, held, vres, store>>

\* calculate_stock_metrics(quantity, buy_price, current_price)
CallMetrics(quantity, buy_price, current_price) ==
    /\ Quiet
    /\ call' = Some([op |-> "calculate_stock_metrics", quantity |-> quantity,
                     buy_price |-> buy_price, current_price |-> current_price,
                     out |-> stock_metrics(Resolution, quantity, buy_price,
                                           current_price)])
    /\ last' = Event("calculate_stock_metrics", "", "", NoResponse)
    /\ UNCHANGED <<now, users, portfolio, nextOid, req, held, vres, store>>

SimNext ==
    \/ \E n \in SimNames, bp \in SimPrices : CallSimulate(n, bp)
    \/ \E bp \in SimPrices, m \in HashMods : CallVariation(bp, m)
    \/ \E q \in SimQuantities, bp \in SimBuyPrices, cp \in SimCurrentPrices :
          CallMetrics(q, bp, cp)
    \/ Tick(MaxSkew)
    \/ Advance(OneHour, OneHour + TicksPerSecond + MaxSkew)
    \/ Yield

SimSpec == Init /\ [][SimNext]_vars

(***************************************************************************)
(* The connection to the store from the import of app/database.py:        *)
(* connect_to_mongo, close_mongo_connection and get_database called in any *)
(* order.                                                                  *)
(***************************************************************************)
MaxClients == 3

StoreInit ==
    /\ now = TicksPerSecond
    /\ users = <<>>
    /\ portfolio = <<>>
    /\ nextOid = 0
    /\ req = [p \in Procs |-> IdleReq]
    /\ last = NoEvent
    /\ held = None
    /\ call = None
    /\ vres = None
    /\ clients = <<>>
    /\ client = None
    /\ database = None

ConnectToMongo(outcome) ==
    /\ Quiet
    /\ Len(clients) < MaxClients
    /\ LET r == connect_to_mongo(outcome)
       IN  /\ clients' = r.clients
           /\ client' = r.client
           /\ database' = r.database
           /\ last' = Event("connect_to_mongo", "", "", r.result)
    /\ UNCHANGED <<now, users, portfolio, nextOid, req, held, call, vres>>

CloseMongoConnection ==
    /\ Quiet
    /\ clients' = close_mongo_connection
    /\ last' = Event("close_mongo_connection", "", "", Return(None))
    /\ UNCHANGED <<now, users, portfolio, nextOid, req, held, call, vres,
                   client, database>>

GetDatabase ==
    /\ Quiet
    /\ last' = Event("get_database", "", "", get_database)
    /\ UNCHANGED <<now, users, portfolio, nextOid, req, held, call, vres, store>>

StoreNext ==
    \/ \E outcome \in ConnectOutcomes : ConnectToMongo(outcome)
    \/ CloseMongoConnection
    \/ GetDatabase
    \/ Yield

StoreSpec == StoreInit /\ [][StoreNext]_vars

(***************************************************************************)
(* Registration request by request: register awaits the store three times *)
(* (find_one by username, find_one by email, insert_one) and other         *)
(* requests run between its store calls.                                   *)
(***************************************************************************)
AccountProcs == {"p1", "p2"}

AccountRegisterInputs ==
    {[username |-> "alice", email |-> "alice@x.com", password |-> "secret1"],
     [username |-> "bob",   email |-> "bob@x.com",   password |-> "secret1"],
     [username |-> "bob",   email |-> "alice@x.com", password |-> "secret2"]}

AccountInit ==
    /\ now = TicksPerSecond
    /\ users = <<>>
    /\ portfolio = <<>>
    /\ nextOid = 0
    /\ req = [p \in AccountProcs |-> IdleReq]
    /\ last = NoEvent
    /\ held = None
    /\ call = None
    /\ vres = None
    /\ clients = <<[closed |-> FALSE]>>
    /\ client = Some(1)
    /\ database = Some(Database(1))

\* The username or the email of user_data is that of an identity in the store
AlreadyRegistered(user_data) ==
    \E i \in 1..Len(users) :
        users[i].username = user_data.username \/ users[i].email = user_data.email

\* register: await db.users.find_one({"username": ...}) and the check on it;
\* known records whether an identity of the store had the username or the
\* email when the request came in
RegisterFindUsername(p, user_data) ==
    /\ Quiet
    /\ req[p].pc = "idle"
    /\ IF register_check_username(user_data) # None
       THEN /\ last' = Event("register", "", "",
                             register_check_username(user_data)[1])
            /\ UNCHANGED req
       ELSE /\ last' = Event("register", "", "", NoResponse)
            /\ req' = [req EXCEPT ![p] =
                          [pc |-> "find_email", user_data |-> user_data,
                           known |-> AlreadyRegistered(user_data)]]
    /\ UNCHANGED <<now, users, portfolio, nextOid, held, call, vres, store>>

\* register: await db.users.find_one({"email": ...}) and the check on it
RegisterFindEmail(p) ==
    /\ Quiet
    /\ req[p].pc = "find_email"
    /\ IF register_check_email(req[p].user_data) # None
       THEN /\ last' = Event("register", "", "",
                             register_check_email(req[p].user_data)[1])
            /\ req' = [req EXCEPT ![p] = IdleReq]
       ELSE /\ last' = Event("register", "", "", NoResponse)
            /\ req' = [req EXCEPT ![p].pc = "insert_user"]
    /\ UNCHANGED <<now, users, portfolio, nextOid, held, call, vres, store>>

\* register: the password hashed, await db.users.insert_one(user_doc), the
\* token and the response
RegisterInsert(p, salt) ==
    /\ Quiet
    /\ req[p].pc = "insert_user"
    /\ users' = register_insert(req[p].user_data, salt).users
    /\ last' = Event("register", "", "", register_insert(req[p].user_data, salt).resp)
    /\ req' = [req EXCEPT ![p] = IdleReq]
    /\ UNCHANGED <<now, portfolio, nextOid, held, call, vres, store>>

AccountNext ==
    \/ \E p \in AccountProcs, d \in AccountRegisterInputs : RegisterFindUsername(p, d)
    \/ \E p \in AccountProcs : RegisterFindEmail(p)
    \/ \E p \in AccountProcs, salt \in Salts : RegisterInsert(p, salt)
    \/ \E d \in LoginInputs : Login(d, FALSE)
    \/ Yield

AccountSpec == AccountInit /\ [][AccountNext]_vars

(***************************************************************************)
(* Properties.                                                             *)
(***************************************************************************)
Docs(coll) == {coll[i] : i \in 1..Len(coll)}
NotFound == HTTPException(404, "Stock not found")
ProtectedOps == {"me", "add_stock", "get_all_stocks", "get_stock",
                 "update_stock", "delete_stock", "get_portfolio_summary"}

\* C1  Ownership isolation.  In every reachable state between two steps,
\* for every holding h and every identity B that is not h's owner:
\* get_stock, update_stock and delete_stock called by B with h's id answer
\* 404 "Stock not found", the answer B gets for a well-formed id of no
\* record, with no body, and delete_stock leaves the collection as it is.
\* In every reachable state, a request that is past update_stock's ownership
\* check refers to no holding of another identity, and the response a
\* request of B got for h's id is that 404.
C1_OwnershipIsolation ==
    /\ Quiet =>
          \A h \in Docs(portfolio), B \in Docs(users) :
              str(B._id) # h.user_id =>
                 /\ get_stock(str(h._id), B) = NotFound
                 /\ get_stock(str(h._id), B) = get_stock(UnusedOidHex, B)
                 /\ update_stock_check(str(h._id), B) = Some(NotFound)
                 /\ update_stock_check(str(h._id), B)
                       = update_stock_check(UnusedOidHex, B)
                 /\ delete_stock(str(h._id), B).resp = NotFound
                 /\ delete_stock(str(h._id), B).resp
                       = delete_stock(UnusedOidHex, B).resp
                 /\ delete_stock(str(h._id), B).portfolio = portfolio
    /\ \A p \in Procs, h \in Docs(portfolio) :
          (req[p].pc # "idle" /\ str(h._id) = req[p].stock_id)
             => h.user_id = req[p].user_id
    /\ \A h \in Docs(portfolio) :
          (/\ last.op \in {"get_stock", "update_stock", "delete_stock"}
           /\ last.user # ""
           /\ last.sid = str(h._id)
           /\ last.user # h.user_id)
             => last.resp = NotFound

\* C1 witness: B's delete_stock on a holding of A was answered 404 and the
\* holding is still in the store
C1_Witness ==
    \E h \in Docs(portfolio) :
        /\ last.op = "delete_stock"
        /\ last.user # ""
        /\ last.user # h.user_id
        /\ last.sid = str(h._id)
        /\ last.resp = NotFound

\* The ids a StockResponse list carries, and the list being exactly the
\* holdings of user_id, each once
ListsExactly(list, user_id) ==
    /\ \A i \in DOMAIN list :
          /\ list[i].user_id = user_id
          /\ \E h \in Docs(portfolio) : str(h._id) = list[i].id /\ h.user_id = user_id
    /\ \A h \in Docs(portfolio) :
          h.user_id = user_id =>
             Cardinality({i \in DOMAIN list : list[i].id = str(h._id)}) = 1

\* C2  List isolation.  In every reachable state between two steps, for
\* every identity U, get_all_stocks and get_portfolio_summary called by U
\* list holdings of U only and every holding of U exactly once; in every
\* reachable state, so does the list a response of either handler carried.
C2_ListIsolation ==
    /\ Quiet =>
          \A U \in Docs(users) :
              /\ ListsExactly(get_all_stocks(U).body[1], str(U._id))
              /\ ListsExactly(get_portfolio_summary(U).body[1].stocks, str(U._id))
              /\ get_portfolio_summary(U).body[1].total_stocks
                    = Cardinality({h \in Docs(portfolio) : h.user_id = str(U._id)})
    /\ (last.op = "get_all_stocks" /\ last.resp.status = 200)
          => ListsExactly(last.resp.body[1], last.user)
    /\ (last.op = "get_portfolio_summary" /\ last.resp.status = 200)
          => ListsExactly(last.resp.body[1].stocks, last.user)

\* C2 witness: a list was returned to U while the store holds a holding of U
\* and a holding of another identity
C2_Witness ==
    /\ last.op = "get_all_stocks"
    /\ last.resp.status = 200
    /\ Len(last.resp.body[1]) = 1
    /\ \E h \in Docs(portfolio) : h.user_id # last.user

\* A credential that is absent, or a token verify_token rejects
Unauthorized(credentials) ==
    credentials = None \/ verify_token(credentials[1]) = None

\* A step that is a protected operation invoked with the credentials
Protected(credentials) ==
    \/ last'.op = "me" /\ Me(credentials)
    \/ last'.op = "add_stock"
          /\ \E d \in StockInputs : AddStock(credentials, d, MaxHoldings)
    \/ last'.op = "get_all_stocks" /\ GetAllStocks(credentials)
    \/ last'.op = "get_stock"
          /\ \E i \in StockIdInputs : GetStock(credentials, i)
    \/ last'.op = "update_stock"
          /\ \E p \in Procs, i \in StockIdInputs, d \in UpdateInputs :
                UpdateStockBegin(p, credentials, i, d)
    \/ last'.op = "delete_stock"
          /\ \E i \in StockIdInputs : DeleteStock(credentials, i)
    \/ last'.op = "get_portfolio_summary" /\ GetPortfolioSummary(credentials)

\* C3  Unauthorized requests.  Every step in which a protected operation
\* (me, add_stock, get_all_stocks, get_stock, update_stock, delete_stock,
\* get_portfolio_summary) is invoked with no bearer credential or with a
\* token verify_token rejects ends in a 401 response that has no body, and
\* leaves the holdings, the identities and the requests in flight as they
\* were.
C3_UnauthorizedIs401 ==
    [][\A c \in Credentials :
          (Unauthorized(c) /\ Protected(c)) =>
             /\ last'.op \in ProtectedOps
             /\ last'.resp.status = 401
             /\ last'.resp.body = None
             /\ portfolio' = portfolio
             /\ users' = users
             /\ nextOid' = nextOid
             /\ req' = req]_vars

\* C3 witness: add_stock with a rejected token was answered 401 while the
\* store holds holdings
C3_Witness ==
    /\ last.op = "add_stock"
    /\ last.resp = HTTPException(401, "Invalid or expired token")
    /\ Len(portfolio) > 0

\* The three rejection causes of get_current_user
TokenRejected(c) == c # None /\ verify_token(c[1]) = None
SubjectAbsent(c) ==
    /\ c # None
    /\ verify_token(c[1]) # None
    /\ DictGet(verify_token(c[1])[1], "sub") = None
IdentityNotFound(c) ==
    /\ c # None
    /\ verify_token(c[1]) # None
    /\ DictGet(verify_token(c[1])[1], "sub") # None
    /\ \A u \in Docs(users) : str(u._id) # verify_token(c[1])[1]["sub"]

\* The "sub" of an accepted token is absent or the hex form of an ObjectId
SubjectWellFormed(c) ==
    \/ TokenRejected(c)
    \/ SubjectAbsent(c)
    \/ ObjectId_is_valid(verify_token(c[1])[1]["sub"])

\* C4  get_current_user resolves a bearer token to an identity exactly when
\* verify_token accepts it, its payload has a "sub" and the store holds an
\* identity with that id, and then to that identity; in every other case
\* the request ends in the 401 rejection, never in an unhandled error.
C4_AuthenticateIff ==
    \A c \in Credentials :
        c # None =>
           LET r == get_current_user(c)
           IN  /\ r.user # None <=>
                     ~(TokenRejected(c) \/ SubjectAbsent(c) \/ IdentityNotFound(c))
               /\ r.user # None => str(r.user[1]._id) = verify_token(c[1])[1]["sub"]
               /\ r.user = None => r.resp.status = 401

\* C5  The three rejection causes of get_current_user get the same response:
\* any two credentials rejected for two of the causes are answered with the
\* same status and the same body.
C5_RejectionsAlike ==
    \A c1, c2 \in Credentials :
        (/\ TokenRejected(c1) \/ SubjectAbsent(c1) \/ IdentityNotFound(c1)
         /\ TokenRejected(c2) \/ SubjectAbsent(c2) \/ IdentityNotFound(c2)
         /\ SubjectWellFormed(c1) /\ SubjectWellFormed(c2))
           => get_current_user(c1).resp = get_current_user(c2).resp

\* The two causes of a failed login
UnknownUsername(d) == \A u \in Docs(users) : u.username # d.username
WrongPassword(d) ==
    \E u \in Docs(users) :
        /\ u.username = d.username
        /\ ~verify_password(d.password, u.hashed_password)

LoginFailure == HTTPException(401, "Incorrect username or password")

\* C6  Login non-disclosure.  Every step that is a login with a username
\* of no identity, or with an existing username and a wrong password, is
\* answered by a 401 with no body, the response a login failing for the
\* other cause gets in the same state; neither issues a token, and the step
\* leaves the identities, the holdings and the token a client keeps as they
\* were.
C6_LoginNonDisclosure ==
    [][\A d \in LoginInputs, k \in BOOLEAN :
          (/\ last'.op = "login"
           /\ UnknownUsername(d) \/ WrongPassword(d)
           /\ Login(d, k)) =>
             /\ last'.resp = LoginFailure
             /\ last'.resp.body = None
             /\ login(d).expire = None
             /\ \A d2 \in LoginInputs :
                   (UnknownUsername(d2) \/ WrongPassword(d2)) =>
                      /\ login(d2).resp = last'.resp
                      /\ login(d2).expire = None
             /\ users' = users
             /\ portfolio' = portfolio
             /\ nextOid' = nextOid
             /\ held' = held]_vars

\* C6 witness: a login was refused while one username of the inputs is
\* unknown and another is known with another password
C6_Witness ==
    /\ last.op = "login"
    /\ last.resp = LoginFailure
    /\ \E d1, d2 \in LoginInputs : UnknownUsername(d1) /\ WrongPassword(d2)

\* C7  A token created with an expires_delta that is zero or negative is
\* rejected by verify_token at the moment of issue and at every later time.
C7_NonPositiveDeltaRejected ==
    (/\ call # None
     /\ vres # None
     /\ call[1].expires_delta # None
     /\ call[1].expires_delta[1] <= 0)
       => vres[1].result = None

\* C8  verify_token accepts a correctly signed token with expiry E exactly
\* while now < E and rejects it at every time now >= E.
C8_AcceptedExactlyBeforeExpiry ==
    (call # None /\ vres # None)
       => (vres[1].result # None <=> vres[1].at < call[1].out.expire)

\* C9  Token round trip.  For claims {sub, username} and a positive
\* expires_delta or none (the default of 30 days), create_access_token
\* leaves the dict passed in as it was, and verify_token called on the token
\* before the expiry instant returns a payload with the same sub and the
\* same username.
C9_RoundTrip ==
    (call # None /\ (call[1].expires_delta = None \/ call[1].expires_delta[1] > 0))
       => /\ call[1].out.data = call[1].data
          /\ (vres # None /\ vres[1].at < call[1].out.expire)
                => /\ vres[1].result # None
                   /\ vres[1].result[1]["sub"] = call[1].data["sub"]
                   /\ vres[1].result[1]["username"] = call[1].data["username"]

\* C9 witness: a token created with a positive expires_delta was verified
\* at a later instant before its expiry, and accepted
C9_Witness ==
    /\ call # None
    /\ vres # None
    /\ call[1].expires_delta = Some(TicksPerSecond)
    /\ vres[1].at > call[1].at
    /\ vres[1].at < call[1].out.expire
    /\ vres[1].result # None

\* C10  No revocation.  A step that changes neither the token a client
\* keeps nor the clock changes nothing in what verify_token answers for the
\* token; and whatever registrations, logins and holding creates, updates
\* and deletes have happened since the token was issued, verify_token
\* accepts it while the clock is before the token's "exp".
C10_NoRevocation ==
    [][/\ (held # None /\ timegm(now) < held[1].payload["exp"])
             => verify_token(held[1]) # None
       /\ (held # None /\ held' = held /\ now' = now)
             => verify_token(held[1])' = verify_token(held[1])]_vars

\* C10 witness: the client keeping a token has created and deleted a
\* holding since, time has passed, and the token is accepted
C10_Witness ==
    /\ held # None
    /\ last.op = "delete_stock"
    /\ last.resp.status = 200
    /\ now > TicksPerSecond
    /\ timegm(now) < held[1].payload["exp"]
    /\ verify_token(held[1]) # None

\* C11  A token a successful register or login returned for identity U
\* carries U's id and username, the ones of the response's user; and every
\* /api/auth/me step that presents the token a client kept from such a
\* response, before the token's "exp", answers 200 with that id and that
\* username, the ones of U's record in the store.
C11_TokenResolvesToOwner ==
    [][/\ (last'.op \in {"register", "login"} /\ last'.resp.body # None) =>
             LET b == last'.resp.body[1]
             IN  /\ b.access_token.payload["sub"] = b.user.id
                 /\ b.access_token.payload["username"] = b.user.username
                 /\ held' # held => held' = Some(b.access_token)
       /\ (/\ last'.op = "me"
           /\ held # None
           /\ timegm(now) < held[1].payload["exp"]
           /\ Me(held)) =>
             /\ last'.resp.status = 200
             /\ last'.resp.body[1].id = held[1].payload["sub"]
             /\ last'.resp.body[1].username = held[1].payload["username"]
             /\ \E u \in Docs(users) :
                   /\ str(u._id) = last'.resp.body[1].id
                   /\ u.username = last'.resp.body[1].username]_vars

\* C11 witness: with two identities in the store and time gone by, the
\* second one's token was presented to /api/auth/me and resolved to it
C11_Witness ==
    /\ last.op = "me"
    /\ last.resp.status = 200
    /\ held # None
    /\ Len(users) = 2
    /\ now > TicksPerSecond
    /\ last.resp.body[1].id = UserOidHex[2]
    /\ held[1].payload["sub"] = UserOidHex[2]

\* The password an identity registered with, and the identity being the
\* only one of its username
RegisteredPassword(u) == u.hashed_password.digest[2]
OnlyOfItsName(i) ==
    \A j \in 1..Len(users) : users[j].username = users[i].username => j = i

\* The credential round trip for the identities of Names: a login with the
\* username and the password registered succeeds with a token for that
\* identity, a login with any other password gets the 401 refusal; no
\* record holds the plain password; two identities registered with the
\* same password under different salts have different hashes.
CredentialRoundTrip(Names) ==
    /\ \A i \in Names, d \in LoginInputs :
          d.username = users[i].username =>
             IF d.password = RegisteredPassword(users[i])
             THEN /\ login(d).resp.status = 200
                  /\ login(d).resp.body[1].user.id = str(users[i]._id)
                  /\ login(d).resp.body[1].access_token.payload["sub"]
                        = str(users[i]._id)
             ELSE login(d).resp = LoginFailure
    /\ \A i \in 1..Len(users) :
          /\ "password" \notin DOMAIN users[i]
          /\ users[i].hashed_password.digest # RegisteredPassword(users[i])
    /\ \A i, j \in 1..Len(users) :
          (/\ i # j
           /\ RegisteredPassword(users[i]) = RegisteredPassword(users[j])
           /\ users[i].hashed_password.salt # users[j].hashed_password.salt)
             => users[i].hashed_password # users[j].hashed_password

\* C12  Credential round trip: for every identity a register request
\* stored, a login with its username and the password it registered with
\* succeeds with a token for that identity and a login with any other
\* password gets the 401 refusal; the stored hash is never the plain
\* password, and two identities registered with the same password (bcrypt
\* drawing different salts) have different hashes.
C12_CredentialRoundTrip ==
    Quiet => CredentialRoundTrip(1..Len(users))

\* The same round trip for the identities that are the only one of their
\* username (this one holds)
RoundTripOfUniqueNames ==
    Quiet => CredentialRoundTrip({i \in 1..Len(users) : OnlyOfItsName(i)})

\* C13  Identity uniqueness: in every reachable state no two identity
\* records have the same username and no two have the same email, register
\* requests interleaving at their store calls included.
C13_IdentityUniqueness ==
    \A i, j \in 1..Len(users) :
        i # j => /\ users[i].username # users[j].username
                 /\ users[i].email # users[j].email

\* C14  Duplicate registration.  A register request that comes in when an
\* identity of the store has its username or its email ends in a 400 with
\* an "already registered" detail and no body (no token), at the check on
\* the username or at the check on the email; it never reaches the insert,
\* and none of its steps changes the identity store.
C14_DuplicateRejected ==
    [][\A p \in AccountProcs :
          /\ \A d \in AccountRegisterInputs :
                (/\ last'.op = "register"
                 /\ AlreadyRegistered(d)
                 /\ RegisterFindUsername(p, d)) =>
                   /\ users' = users
                   /\ IF req'[p].pc = "idle"
                      THEN last'.resp
                              = HTTPException(400, "Username already registered")
                      ELSE req'[p].known
          /\ (/\ last'.op = "register"
              /\ req[p].pc = "find_email"
              /\ req[p].known
              /\ RegisterFindEmail(p)) =>
                /\ users' = users
                /\ req'[p] = IdleReq
                /\ last'.resp = HTTPException(400, "Email already registered")
                /\ last'.resp.body = None
          /\ req[p].pc = "insert_user" => ~req[p].known]_vars

\* C14 witness: a request with a new username and the email of an identity
\* in the store was refused at the check on the email
C14_Witness ==
    /\ last.op = "register"
    /\ last.resp = HTTPException(400, "Email already registered")
    /\ Len(users) > 0

\* The fields of a holding that are derived from price data
DerivedFields ==
    {"current_price", "total_invested", "current_value", "profit_loss",
     "profit_loss_percentage"}

\* C15  Derived values are never persisted: in every reachable state no
\* holding record of the store has a current price, a total invested, a
\* current value, a profit/loss or a profit/loss percentage field.
C15_DerivedNeverPersisted ==
    \A i \in 1..Len(portfolio) : DOMAIN portfolio[i] \cap DerivedFields = {}

\* The names and the buy prices of the holdings the requests make
HoldingNames == {"AAPL", "GOOG"}
HoldingPrices == {15000, 20000}

\* C16  Price determinism within an hour.  simulate_stock_price depends on
\* the stock name, the buy price and the hour of the clock only: over any
\* step that stays in the hour it returns the same price for the same name
\* and buy price, and when the clock moves within the hour and the
\* holdings are as they were, get_stock, get_all_stocks and
\* get_portfolio_summary return what they returned before, current price
\* and metrics included (the clock and the holdings are all these reads
\* depend on).  In every state the three reads show the same current price
\* and metrics for a holding.
C16_SameHourSamePrice ==
    [][/\ current_hour' = current_hour =>
             \A n \in HoldingNames, bp \in HoldingPrices :
                simulate_stock_price(n, bp)' = simulate_stock_price(n, bp)
       /\ (/\ now' # now
           /\ current_hour' = current_hour
           /\ portfolio' = portfolio) =>
             \A u \in Docs(users) :
                /\ get_all_stocks(u)' = get_all_stocks(u)
                /\ get_portfolio_summary(u)' = get_portfolio_summary(u)
                /\ \A i \in 1..Len(portfolio) :
                      get_stock(str(portfolio[i]._id), u)'
                         = get_stock(str(portfolio[i]._id), u)
       /\ Quiet => \A u \in Docs(users) :
             LET list == get_all_stocks(u).body[1]
             IN  /\ get_portfolio_summary(u).body[1].stocks = list
                 /\ \A k \in 1..Len(list) :
                       get_stock(list[k].id, u).body[1] = list[k]]_vars

\* C16 witness: a read of a holding answered after the clock moved within
\* the hour the holding was made in, the price being a simulated one
C16_Witness ==
    /\ last.op = "get_stock"
    /\ last.resp.status = 200
    /\ current_hour = 0
    /\ \E i \in 1..Len(portfolio) :
          /\ now > portfolio[i].updated_at
          /\ last.resp.body[1].id = str(portfolio[i]._id)
          /\ last.resp.body[1].current_price # portfolio[i].buy_price
          /\ last.resp.body[1].current_price
                = simulate_stock_price(portfolio[i].stock_name, portfolio[i].buy_price)

\* A call of simulate_stock_price was made, with a buy price above zero or
\* not
Simulated == call # None /\ call[1].op = "simulate_stock_price"
SimulatedPositive == Simulated /\ call[1].buy_price > 0
SimulatedNonPositive == Simulated /\ call[1].buy_price <= 0

\* C17  Bounded variation.  For every buy_price > 0 the variation applied
\* is (m / 10000 - 0.5) * 0.10 with m in 0..9999, so at least -0.05 and
\* below +0.05; the price returned is buy_price * (1 + variation) to within
\* half a cent, and so lies between 0.95 * buy_price and 1.05 * buy_price to
\* within half a cent.
C17_BoundedVariation ==
    SimulatedPositive =>
       LET c == call[1]
           variation == c.m - 5000                  \* in 1/100000
           exact == c.buy_price * (100000 + variation)
       IN  /\ c.m \in 0..9999
           /\ -5000 <= variation /\ variation < 5000
           /\ 2 * (100000 * c.out - exact) <= 100000 * Resolution
           /\ 2 * (exact - 100000 * c.out) <= 100000 * Resolution
           /\ 2 * (95 * c.buy_price - 100 * c.out) <= 100 * Resolution
           /\ 2 * (100 * c.out - 105 * c.buy_price) <= 100 * Resolution

\* C17 witness: a call with buy_price 5.00 in the second hour, the price
\* made from the md5 of the name and the hour and not the buy price
C17_Witness ==
    /\ SimulatedPositive
    /\ call[1].buy_price = 500 * Resolution
    /\ call[1].stock_name = "GOOG"
    /\ call[1].hour = 1
    /\ call[1].out # call[1].buy_price

\* C18  Prices are always positive: for every buy_price > 0, however
\* small, the price returned, rounded to whole cents, is above zero.
C18_AlwaysPositive ==
    SimulatedPositive => call[1].out > 0

\* C19  Non-positive guard: for every buy_price <= 0 the price returned is
\* buy_price, unchanged, whatever the name and the hour.
C19_NonPositiveUnchanged ==
    SimulatedNonPositive => call[1].out = call[1].buy_price

\* C19 witness: a call with buy_price -10.00 in the second hour
C19_Witness ==
    /\ SimulatedNonPositive
    /\ call[1].buy_price = -1000 * Resolution
    /\ call[1].stock_name = "AAPL"
    /\ call[1].hour = 1
    /\ call[1].out = -1000 * Resolution

\* A call of calculate_stock_metrics was made, with a quantity and a buy
\* price above zero and a current price not below zero; what remains of
\* current_value - total_invested - profit_loss, as whole cents and as the
\* floats returned
Measured ==
    /\ call # None
    /\ call[1].op = "calculate_stock_metrics"
    /\ call[1].quantity > 0
    /\ call[1].buy_price > 0
    /\ call[1].current_price >= 0
MeasuredGap ==
    call[1].out.current_value - call[1].out.total_invested - call[1].out.profit_loss
MeasuredGapAsFloats ==
    float_abs(float_sub(float_sub(float(call[1].out.current_value),
                                  float(call[1].out.total_invested)),
                        float(call[1].out.profit_loss)))

\* C20 as stated: for the floats calculate_stock_metrics returns,
\* |(current_value - total_invested) - profit_loss| <= 0.01.
C20_GapAtMostCentAsFloats ==
    Measured => float_le(MeasuredGapAsFloats, float(1))

\* C20  Metrics consistency.  total_invested, current_value and
\* profit_loss are quantity * buy_price, quantity * current_price and their
\* difference, each rounded to whole cents, and read as amounts of whole
\* cents, current_value - total_invested differs from profit_loss by one
\* cent at most.  As floats the difference can be above 0.01, the three
\* floats not being the decimal amounts exactly: by less than 10^-15 for
\* amounts below a dollar.
C20_GapAtMostCent ==
    Measured =>
       LET c == call[1]
       IN  /\ c.out.total_invested
                 = RoundHalfEven(c.quantity * c.buy_price, Resolution)
           /\ c.out.current_value
                 = RoundHalfEven(c.quantity * c.current_price, Resolution)
           /\ c.out.profit_loss
                 = RoundHalfEven(c.quantity * c.current_price
                                    - c.quantity * c.buy_price, Resolution)
           /\ MeasuredGap \in {-1, 0, 1}
           /\ MeasuredGapAsFloats.cents <= 1
           /\ MeasuredGapAsFloats.err < 1000000

\* C20 witness: a call whose current_value - total_invested is a cent away
\* from its profit_loss, and more than 0.01 away as floats
C20_Witness ==
    /\ Measured
    /\ call[1].quantity = 1 /\ call[1].buy_price = 16 /\ call[1].current_price = 32
    /\ MeasuredGap = -1
    /\ MeasuredGapAsFloats.cents = 1
    /\ MeasuredGapAsFloats.err > float(1).err

\* C21  Zero-investment guard: for quantity > 0, buy_price > 0 and
\* current_price >= 0, whenever the total_invested returned is 0 (quantity
\* * buy_price rounds to 0.00) the profit_loss_percentage returned is 0.
C21_ZeroInvestedZeroPercentage ==
    (Measured /\ call[1].out.total_invested = 0)
       => call[1].out.profit_loss_percentage = 0

\* C22  The response of a successful add_stock echoes stock_name, quantity
\* and buy_price of the request, and has total_invested = quantity *
\* buy_price, current_price = buy_price, current_value = total_invested and
\* profit_loss = 0, so that current_value lies within 0.95 and 1.05 times
\* total_invested.
C22_AddStockResponse ==
    [][\A c \in HeldCredentials, d \in HoldingInputs :
          (/\ last'.op = "add_stock"
           /\ last'.resp.status = 201
           /\ AddStock(c, d, HoldingCap)) =>
             LET b == last'.resp.body[1]
             IN  /\ b.stock_name = d.stock_name
                 /\ b.quantity = d.quantity
                 /\ b.buy_price = d.buy_price
                 /\ b.total_invested = d.quantity * d.buy_price
                 /\ b.current_price = d.buy_price
                 /\ b.current_value = b.total_invested
                 /\ b.profit_loss = 0
                 /\ b.profit_loss_percentage = 0
                 /\ 95 * b.total_invested <= 100 * b.current_value
                 /\ 100 * b.current_value <= 105 * b.total_invested]_vars

\* C22 witness: the second holding was added, 3 shares of GOOG at 200.00
C22_Witness ==
    /\ last.op = "add_stock"
    /\ last.resp.status = 201
    /\ last.resp.body[1].stock_name = "GOOG"
    /\ last.resp.body[1].total_invested = 60000
    /\ Len(portfolio) = 2

\* The fields a request of update_stock may provide, and the partial
\* update: over the store call of an update_stock, the holding of the
\* request takes the value of the request in the fields it provides, in
\* updated_at and in the fields of Also that the update document carries,
\* keeps every other field, its id and its owner among them, and every
\* other record stays as it was; the response of a successful update_stock
\* shows the stored values, total_invested being the stored quantity times
\* the stored buy_price.
UpdatableFields == {"stock_name", "quantity", "buy_price"}
PartialUpdate(Also) ==
    \A p \in Procs :
       /\ (/\ last'.op = "update_stock"
           /\ req[p].pc = "update_one"
           /\ UpdateStockSet(p)) =>
             LET ud == req[p].update_data
                 set == (DOMAIN ud) \cap (UpdatableFields \cup {"updated_at"} \cup Also)
             IN  /\ users' = users
                 /\ Len(portfolio') = Len(portfolio)
                 /\ \A i \in 1..Len(portfolio) :
                       IF str(portfolio[i]._id) = req[p].stock_id
                       THEN /\ DOMAIN portfolio'[i] = DOMAIN portfolio[i]
                            /\ \A f \in DOMAIN portfolio[i] :
                                  portfolio'[i][f]
                                     = IF f \in set THEN ud[f] ELSE portfolio[i][f]
                       ELSE portfolio'[i] = portfolio[i]
       /\ (/\ last'.op = "update_stock"
           /\ req[p].pc = "find_updated"
           /\ last'.resp.status = 200) =>
             \E i \in 1..Len(portfolio) :
                LET h == portfolio[i]
                    b == last'.resp.body[1]
                IN  /\ str(h._id) = req[p].stock_id
                    /\ portfolio' = portfolio
                    /\ b.id = str(h._id)
                    /\ b.user_id = h.user_id
                    /\ b.stock_name = h.stock_name
                    /\ b.quantity = h.quantity
                    /\ b.buy_price = h.buy_price
                    /\ b.total_invested = h.quantity * h.buy_price

\* C23  Partial update: a successful update_stock by the owner changes, in
\* the stored holding, exactly the fields among stock_name, quantity and
\* buy_price that the request provides and updated_at; every field not
\* provided, the id and the owner of the holding and every other record
\* stay unchanged, and the response shows the stored values.  A request
\* providing no field changes updated_at only.
C23_PartialUpdate ==
    [][PartialUpdate({})]_vars

\* The partial update, the stored current_price following buy_price (this
\* one holds)
PartialUpdateAndCurrentPrice ==
    [][PartialUpdate({"current_price"})]_vars

\* The ids of the holdings made so far, and an id among them being of no
\* holding of the store: the holding was deleted
Issued == {StockOidHex[i] : i \in 1..nextOid}
Absent(coll, stock_id) == \A h \in Docs(coll) : str(h._id) # stock_id
Gone(stock_id) == stock_id \in Issued /\ Absent(portfolio, stock_id)
Ids(stock_list) == {stock_list[k].id : k \in 1..Len(stock_list)}

\* C24  Delete is final.  A delete_stock that answers success has taken
\* the holding of its id out of the store and left every other holding as
\* it was.  A holding that is gone stays gone over every step; get_stock
\* and delete_stock with its id, by any identity, are answered 404 "Stock
\* not found", as is an update_stock that comes in; and it is in no
\* get_all_stocks and no summary result.
C24_DeleteIsFinal ==
    [][/\ \A id \in Issued : Gone(id) => Gone(id)'
       /\ (last'.op = "delete_stock" /\ last'.resp.status = 200) =>
             /\ ~Absent(portfolio, last'.sid)
             /\ Absent(portfolio', last'.sid)
             /\ Len(portfolio') = Len(portfolio) - 1
             /\ \A h \in Docs(portfolio) :
                   str(h._id) # last'.sid => h \in Docs(portfolio')
       /\ (/\ last'.op \in {"get_stock", "delete_stock"}
           /\ last'.user # ""
           /\ Gone(last'.sid)) => last'.resp = NotFound
       /\ Quiet =>
             \A id \in Issued, B \in Docs(users) :
                Gone(id) =>
                   /\ get_stock(id, B) = NotFound
                   /\ update_stock_check(id, B) = Some(NotFound)
                   /\ delete_stock(id, B).resp = NotFound
                   /\ delete_stock(id, B).portfolio = portfolio
                   /\ id \notin Ids(get_all_stocks(B).body[1])
                   /\ id \notin Ids(get_portfolio_summary(B).body[1].stocks)]_vars

\* C24 witness: the owner of a deleted holding asked for it again and got
\* 404, another holding made before it being still in the store
C24_Witness ==
    /\ last.op = "get_stock"
    /\ last.user = UserOidHex[1]
    /\ Gone(last.sid)
    /\ last.sid = StockOidHex[2]
    /\ last.resp = NotFound
    /\ Len(portfolio) = 1

\* The sum of a field over the holdings of a summary, and the summary
\* being consistent with its list of holdings
RECURSIVE TotalOf(_, _, _)
TotalOf(stocks, field, n) ==
    IF n = 0 THEN 0 ELSE TotalOf(stocks, field, n - 1) + stocks[n][field]
Consistent(summary) ==
    /\ summary.total_stocks = Len(summary.stocks)
    /\ summary.total_invested
          = TotalOf(summary.stocks, "total_invested", Len(summary.stocks))
    /\ summary.total_current_value
          = TotalOf(summary.stocks, "current_value", Len(summary.stocks))
    /\ summary.total_profit_loss
          = summary.total_current_value - summary.total_invested
    /\ summary.total_invested = 0 => summary.total_profit_loss_percentage = 0
    /\ Len(summary.stocks) = 0 =>
          /\ summary.total_invested = 0
          /\ summary.total_current_value = 0
          /\ summary.total_profit_loss = 0
          /\ summary.total_profit_loss_percentage = 0

\* C25  Summary consistency: in every response of get_portfolio_summary,
\* total_stocks is the length of the list of holdings, total_invested and
\* total_current_value are the sums of total_invested and current_value
\* over that list, total_profit_loss is total_current_value -
\* total_invested, and total_profit_loss_percentage is 0 when
\* total_invested is 0; for an empty portfolio all the totals are 0.
C25_SummaryConsistent ==
    /\ (last.op = "get_portfolio_summary" /\ last.resp.status = 200)
          => Consistent(last.resp.body[1])
    /\ Quiet => \A u \in Docs(users) : Consistent(get_portfolio_summary(u).body[1])

\* C25 witness: a summary of two holdings with a profit or a loss
C25_Witness ==
    /\ last.op = "get_portfolio_summary"
    /\ last.resp.status = 200
    /\ last.resp.body[1].total_stocks = 2
    /\ last.resp.body[1].total_profit_loss # 0

\* A summary of the empty portfolio was answered
EmptySummary ==
    /\ last.op = "get_portfolio_summary"
    /\ last.resp.status = 200
    /\ last.resp.body[1].total_stocks = 0

\* A body of add_stock with a quantity or a buy price not above zero, and
\* a body of update_stock providing one
NonPositiveCreate(d) == d.quantity <= 0 \/ d.buy_price <= 0
NonPositiveUpdate(d) ==
    \/ d.quantity # None /\ d.quantity[1] <= 0
    \/ d.buy_price # None /\ d.buy_price[1] <= 0

C27_UpdateEndsInSuccessOrNotFound ==
    (/\ last.op = "update_stock"
     /\ last.user # ""
     /\ ObjectId_is_valid(last.sid)
     /\ last.resp # NoResponse)
       => (last.resp.status = 200 \/ last.resp = NotFound)

\* C28  add_stock by an authenticated identity U inserts exactly one new
\* holding, whose owner is U and whose stock_name, quantity and buy_price
\* are those of the request (a StockCreate has no field for the owner);
\* it changes no holding there was and no identity.  Over every step, the
\* owner of a holding that stays in the store stays the same.
C28_AddStockFrame ==
    [][/\ \A c \in Credentials, d \in StockInputs :
             (/\ last'.op = "add_stock"
              /\ last'.resp.status = 201
              /\ AddStock(c, d, MaxHoldings)) =>
                LET U == get_current_user(c).user[1]
                    n == Len(portfolio)
                IN  /\ Len(portfolio') = n + 1
                    /\ SubSeq(portfolio', 1, n) = portfolio
                    /\ portfolio'[n + 1].user_id = str(U._id)
                    /\ portfolio'[n + 1].stock_name = d.stock_name
                    /\ portfolio'[n + 1].quantity = d.quantity
                    /\ portfolio'[n + 1].buy_price = d.buy_price
                    /\ Absent(portfolio, str(portfolio'[n + 1]._id))
                    /\ last'.resp.body[1].user_id = str(U._id)
                    /\ last'.resp.body[1].id = str(portfolio'[n + 1]._id)
                    /\ DOMAIN d = {"stock_name", "quantity", "buy_price"}
                    /\ users' = users
       /\ \A h \in Docs(portfolio), g \in Docs(portfolio') :
             g._id = h._id => g.user_id = h.user_id]_vars

\* C28 witness: the second identity added a holding to a store that held
\* one of the first identity
C28_Witness ==
    /\ last.op = "add_stock"
    /\ last.resp.status = 201
    /\ last.user = UserOidHex[2]
    /\ Len(portfolio) = 2
    /\ portfolio[1].user_id = UserOidHex[1]
    /\ portfolio[2].user_id = UserOidHex[2]

\* C29  The store handle lifecycle.  get_database raises the 503 error
\* before any connect_to_mongo; a connect_to_mongo that returned is followed
\* by get_database returning the handle it returned; a connect_to_mongo
\* that raised makes no handle available; close_mongo_connection is
\* followed by get_database raising the 503 error; no other step changes
\* what get_database does.
C29_HandleOnlyWhileConnected ==
    /\ clients = <<>> => get_database = ServiceUnavailable
    /\ [][/\ (last'.op = "connect_to_mongo" /\ last'.resp.status = 200)
                => get_database' = last'.resp
          /\ (last'.op = "connect_to_mongo" /\ last'.resp.status # 200)
                => (get_database = ServiceUnavailable
                       => get_database' = ServiceUnavailable)
          /\ last'.op = "close_mongo_connection"
                => get_database' = ServiceUnavailable
          /\ last'.op = "get_database"
                => (last'.resp = get_database /\ get_database' = get_database)
          /\ last'.op = "idle"
                => get_database' = get_database]_vars

====
